---------------------------- MODULE Spec2Model ----------------------------
(***************************************************************************)
(* The ingestion pipeline of the AWS certification quiz platform:          *)
(*   scripts/generate-questions.py  (Generator -> Mapper -> Batch Writer)  *)
(*   scripts/seed-questions.py      (sample pool -> Mapper -> Batch Writer)*)
(*                                                                         *)
(* Seven specifications share the variables below:                         *)
(*   Spec        one run of generate-questions.py main()                   *)
(*   SpecRunKeys the same run, with one submitted key watched for          *)
(*   SpecTotals  a run of either script up to its summary                  *)
(*   SpecWrite   one write: insert_questions_to_dynamodb / seed_questions  *)
(*   SpecStore   one write of at most two chunks, and what the Store holds *)
(*   SpecKey     generate_question_id applied to two indices of a sequence *)
(*   SpecMapper  create_question_item applied to one raw record            *)
(***************************************************************************)
EXTENDS Integers, Sequences, FiniteSets, TLC

VARIABLES
    script,          \* which program runs: "generate" or "seed"
    exam_type,       \* args.exam_type
    domain_arg,      \* args.domain, "" when the flag is not given
    count,           \* args.count
    domains,         \* the domain list of the run
    pc,              \* position of the program
    clock,           \* the wall clock, in whole epoch seconds
    ticksLeft,       \* environment: clock ticks the scheduler may still insert
    faultsLeft,      \* environment: Store calls that may still fail or be partial
    d,               \* index in domains of the domain being processed
    questions,       \* records returned by the Generator for domain d
    items,           \* the StoreItems of the current write
    i,               \* offset of the next chunk in items (the loop variable)
    w_inserted,      \* the writer's local total_inserted
    failed_items,    \* the writer's local failed_items
    callLog,         \* history: the batches handed to batch_write_item in this write
    lastChunk,       \* history: what the last chunk call did
    applied,         \* the Store: positions in items of the items it has applied
    total_generated, \* main's total_generated
    total_inserted,  \* main's total_inserted
    genCalls,        \* history: Generator calls made in the run
    storeCalls,      \* history: batch_write_item calls made in the run
    pauses,          \* history: time.sleep(2) calls made in the run
    delivered,       \* history: records the Generator or the pool has delivered
    retInserted,     \* history: sum of the insertedCount the writer returned
    retFailed,       \* history: sum of the len(failedItems) the writer returned
    exitStatus,      \* process exit status once ended, -1 while running
    exitCause,       \* why the process ended
    summary,         \* the totals the final summary printed, <<>> before
    watched,         \* history: one key submitted earlier, chosen arbitrarily
    keyReused,       \* history: a later submission carried the watched key
    keyIn,           \* SpecKey: the input of the Key Assigner
    keyOut,          \* SpecKey: the ids produced so far
    mapIn,           \* SpecMapper: the input of the Item Mapper
    mapOut,          \* SpecMapper: the item returned (a sequence of length <= 1)
    mapErr           \* SpecMapper: the exception raised, "" if none

vars == <<script, exam_type, domain_arg, count, domains, pc, clock, ticksLeft,
          faultsLeft, d, questions, items, i, w_inserted, failed_items, callLog,
          lastChunk, applied, total_generated, total_inserted, genCalls,
          storeCalls, pauses, delivered, retInserted, retFailed, exitStatus,
          exitCause, summary, watched, keyReused, keyIn, keyOut, mapIn, mapOut,
          mapErr>>

\* the command line, fixed once the program has started
argVars == <<script, exam_type, domain_arg, count>>

\* the environment
envVars == <<clock, ticksLeft, faultsLeft>>

\* main's locals
mainVars == <<domains, d, questions, total_generated, total_inserted>>

\* the Batch Writer's locals and the history of its calls
writerVars == <<items, i, w_inserted, failed_items, callLog, lastChunk, applied>>

\* history of the run
\* what the writer and the producers have handed over so far
tallyVars == <<delivered, retInserted, retFailed>>

histVars == <<genCalls, storeCalls, pauses, tallyVars, watched, keyReused>>

endVars == <<exitStatus, exitCause, summary>>

runVars == <<argVars, mainVars, writerVars, histVars, endVars, pc>>

fnVars == <<keyIn, keyOut, mapIn, mapOut, mapErr>>

---------------------------------------------------------------------------
(* Bounds of the model *)

\* records the Generator returns for one domain in a run of Spec
MaxGen == 2
\* items of one write in SpecWrite (three chunks: 25, 25, 1)
MaxItems == 51
\* clock ticks the environment inserts besides the inter-domain sleep
MaxTicks == 1
\* Store calls of one run of Spec that fail or come back partial
MaxFaults == 2
\* indices tried around 1 and around the padding limit in SpecKey
MaxIndex == 3
\* the epoch second at which the clock starts (going from 9 to 10 digits)
ClockStart == 999999999

---------------------------------------------------------------------------
(* Program constants *)

batch_size == 25
PadWidth == 4
SleepSeconds == 2
MinCount == 1
MaxCountGenerate == 200
DefaultCountGenerate == 50

ExamTypes == {"Developer-Associate", "Solutions-Architect-Associate",
              "SysOps-Administrator-Associate"}

\* an exam type outside the configured ones
UnknownExamType == "Cloud-Practitioner"

RECURSIVE Pow10(_)
Pow10(n) == IF n = 0 THEN 1 ELSE 10 * Pow10(n - 1)

Min(a, b) == IF a < b THEN a ELSE b

---------------------------------------------------------------------------
(* Key Assigner *)

RECURSIVE Zeros(_)
Zeros(n) == IF n <= 0 THEN "" ELSE "0" \o Zeros(n - 1)

\* a faulty ZeroPad: pads and cuts to exactly PadWidth digits
ZeroPad_Truncating(index) ==
    LET s == ToString(index % Pow10(PadWidth))
    IN  Zeros(PadWidth - Len(s)) \o s

\* Python's format spec 04d: at least PadWidth digits, never cut
ZeroPad(index) ==
    LET s == ToString(index)
    IN  Zeros(PadWidth - Len(s)) \o s

\* dict.get(exam_type, "DEV")
ExamPrefix(et) ==
    CASE et = "Developer-Associate" -> "DEV"
      [] et = "Solutions-Architect-Associate" -> "SAA"
      [] et = "SysOps-Administrator-Associate" -> "SOA"
      [] OTHER -> "DEV"

\* generate-questions.py: the id is salted with the clock read at the call
generate_question_id(et, index, now) ==
    ExamPrefix(et) \o "-" \o ToString(now) \o "-" \o ZeroPad(index)

\* seed-questions.py: prefix and padded index only
seed_question_id(et, index) ==
    ExamPrefix(et) \o "-" \o ZeroPad(index)

---------------------------------------------------------------------------
(* Raw question records: Python dicts, modelled as functions from the keys  *)
(* that are present to their values                                         *)

RequiredFields == {"domain", "questionType", "difficulty", "questionText",
                   "options", "correctAnswers", "explanation", "references"}

OptionalFields == {"scenario", "codeSnippet"}

Restrict(f, S) == [k \in S |-> f[k]]

OptsTF == <<[id |-> "A", text |-> "True"], [id |-> "B", text |-> "False"]>>

OptsABCD == <<[id |-> "A", text |-> "a"], [id |-> "B", text |-> "b"],
              [id |-> "C", text |-> "c"], [id |-> "D", text |-> "d"]>>

\* SAMPLE_QUESTIONS, the pool of seed-questions.py (texts abbreviated)
SAMPLE_QUESTIONS ==
    << [domain |-> "Development with AWS Services", questionType |-> "single-choice",
        difficulty |-> "medium", questionText |-> "Q1", options |-> OptsABCD,
        correctAnswers |-> <<"B">>, explanation |-> "E1", references |-> <<"u1">>],
       [domain |-> "Security", questionType |-> "multiple-choice",
        difficulty |-> "hard", questionText |-> "Q2", options |-> OptsABCD,
        correctAnswers |-> <<"B", "C">>, explanation |-> "E2",
        references |-> <<"u2", "u3">>],
       [domain |-> "Deployment", questionType |-> "single-choice",
        difficulty |-> "medium", questionText |-> "Q3", options |-> OptsABCD,
        correctAnswers |-> <<"B">>, explanation |-> "E3", references |-> <<"u4">>],
       [domain |-> "Troubleshooting and Optimization",
        questionType |-> "scenario-based", difficulty |-> "hard",
        questionText |-> "Q4", scenario |-> "S4", options |-> OptsABCD,
        correctAnswers |-> <<"C">>, explanation |-> "E4",
        references |-> <<"u5", "u6">>],
       [domain |-> "Development with AWS Services", questionType |-> "true-false",
        difficulty |-> "easy", questionText |-> "Q5", options |-> OptsTF,
        correctAnswers |-> <<"A">>, explanation |-> "E5", references |-> <<"u7">>] >>

\* a record carrying every field, from which the Generator's records are cut
FullRecord(opts, correct, scen, snippet) ==
    [domain |-> "Security", questionType |-> "scenario-based",
     difficulty |-> "medium", questionText |-> "Q", options |-> opts,
     correctAnswers |-> correct, explanation |-> "E", references |-> <<"u">>,
     scenario |-> scen, codeSnippet |-> snippet]

\* what the Generator, an untrusted producer, may put into one array element:
\* any required field may be missing, correctAnswers may be empty or name no
\* option, each optional field may be absent, empty or set
RawRecords ==
    { Restrict(FullRecord(opts, correct, scen, "print(1)"), keys) :
        opts \in {OptsTF, OptsABCD},
        correct \in {<<>>, <<"A">>, <<"A", "C">>, <<"E">>},
        scen \in {"", "ctx"},
        keys \in { (RequiredFields \cup opt) \ miss :
                     opt \in SUBSET OptionalFields,
                     miss \in {{}} \cup {{f} : f \in RequiredFields} } }

\* a record that satisfies the QuestionRecord invariants
ValidRecord ==
    Restrict(FullRecord(OptsABCD, <<"A">>, "ctx", ""), RequiredFields \cup {"scenario"})

\* a record without its explanation
RecordMissingField ==
    Restrict(FullRecord(OptsABCD, <<"A">>, "", ""), RequiredFields \ {"explanation"})

---------------------------------------------------------------------------
(* Item Mapper *)

AttrS(x) == [S |-> x]
AttrN(x) == [N |-> x]
AttrL(x) == [L |-> x]
AttrM(x) == [M |-> x]

\* datetime.now(timezone.utc).isoformat(), at whole-second resolution
IsoFormat(now) == "T" \o ToString(now)

OptionAttr(opt) == AttrM([id |-> AttrS(opt.id), text |-> AttrS(opt.text)])

\* question_data[f] of a missing key raises KeyError
MapRaises(q) == \E f \in RequiredFields : f \notin DOMAIN q

\* the item literal both scripts build
ItemLiteral(q, et, question_id, now, by) ==
    [PK |-> AttrS("EXAM#" \o et),
     SK |-> AttrS("QUESTION#" \o question_id),
     id |-> AttrS(question_id),
     examType |-> AttrS(et),
     domain |-> AttrS(q["domain"]),
     questionType |-> AttrS(q["questionType"]),
     difficulty |-> AttrS(q["difficulty"]),
     questionText |-> AttrS(q["questionText"]),
     options |-> AttrL([k \in 1..Len(q["options"]) |-> OptionAttr(q["options"][k])]),
     correctAnswers |-> AttrL([k \in 1..Len(q["correctAnswers"]) |->
                                  AttrS(q["correctAnswers"][k])]),
     explanation |-> AttrS(q["explanation"]),
     references |-> AttrL([k \in 1..Len(q["references"]) |->
                              AttrS(q["references"][k])]),
     status |-> AttrS("approved"),
     timesAnswered |-> AttrN("0"),
     timesCorrect |-> AttrN("0"),
     averageTimeSpent |-> AttrN("0"),
     createdAt |-> AttrS(IsoFormat(now)),
     updatedAt |-> AttrS(IsoFormat(now)),
     createdBy |-> AttrS(by)]

\* generate-questions.py: scenario is copied when present and truthy;
\* codeSnippet is not looked at
create_question_item(q, et, index, now) ==
    LET item == ItemLiteral(q, et, generate_question_id(et, index, now), now,
                            "bedrock-ai")
    IN  IF "scenario" \in DOMAIN q /\ q["scenario"] # ""
        THEN item @@ ("scenario" :> AttrS(q["scenario"]))
        ELSE item

\* seed-questions.py: scenario and codeSnippet are copied when present
seed_create_question_item(q, et, index, now) ==
    LET item == ItemLiteral(q, et, seed_question_id(et, index), now, "seed-script")
        withScenario == IF "scenario" \in DOMAIN q
                        THEN item @@ ("scenario" :> AttrS(q["scenario"]))
                        ELSE item
    IN  IF "codeSnippet" \in DOMAIN q
        THEN withScenario @@ ("codeSnippet" :> AttrS(q["codeSnippet"]))
        ELSE withScenario

---------------------------------------------------------------------------
(* Values of the variables a specification does not use *)

NoChunk == [k |-> 0, size |-> 0, outcome |-> "none", unprocessed |-> 0,
            insertedBefore |-> 0, failedBefore |-> 0]

NoKeyIn == [strategy |-> "", exam_type |-> "", first |-> 0, second |-> 0]

NoMapIn == [script |-> "", exam_type |-> "", index |-> 0, record |-> ValidRecord]

RunZero ==
    /\ domain_arg = "" /\ domains = <<>>
    /\ d = 0 /\ questions = <<>> /\ items = <<>> /\ i = 0
    /\ w_inserted = 0 /\ failed_items = <<>> /\ callLog = <<>>
    /\ lastChunk = NoChunk /\ applied = {}
    /\ total_generated = 0 /\ total_inserted = 0
    /\ genCalls = 0 /\ storeCalls = 0 /\ pauses = 0
    /\ delivered = 0 /\ retInserted = 0 /\ retFailed = 0
    /\ exitStatus = -1 /\ exitCause = "" /\ summary = <<>>
    /\ watched = <<>> /\ keyReused = FALSE

FnZero ==
    /\ keyIn = NoKeyIn /\ keyOut = <<>>
    /\ mapIn = NoMapIn /\ mapOut = <<>> /\ mapErr = ""

\* the clock moves on by one second; the environment may do so at any point
\* of a running program, ticksLeft times.  The clock never runs backwards.
ClockTick ==
    /\ ticksLeft > 0
    /\ exitStatus = -1
    /\ clock' = clock + 1
    /\ ticksLeft' = ticksLeft - 1
    /\ UNCHANGED <<runVars, fnVars, faultsLeft>>

---------------------------------------------------------------------------
(* SpecKey: the Key Assigner on two indices of one invocation sequence *)

KeyIndices ==
    (1 .. MaxIndex) \cup {10, 100, 1000}
        \cup ((Pow10(PadWidth) - 1) .. (Pow10(PadWidth) + MaxIndex))

InitKey ==
    /\ script = "key" /\ pc = "assign"
    /\ exam_type = "" /\ count = 0
    /\ clock = ClockStart /\ ticksLeft = MaxTicks /\ faultsLeft = 0
    /\ RunZero
    /\ keyIn \in {k \in [strategy : {"sequential", "time-salted"},
                         exam_type : ExamTypes \cup {UnknownExamType},
                         first : KeyIndices, second : KeyIndices] :
                    k.first < k.second}
    /\ keyOut = <<>> /\ mapIn = NoMapIn /\ mapOut = <<>> /\ mapErr = ""

\* one call of the Key Assigner: the seed script's or the generate script's
AssignKey ==
    /\ pc = "assign"
    /\ Len(keyOut) < 2
    /\ LET index == IF Len(keyOut) = 0 THEN keyIn.first ELSE keyIn.second
           id == IF keyIn.strategy = "sequential"
                 THEN seed_question_id(keyIn.exam_type, index)
                 ELSE generate_question_id(keyIn.exam_type, index, clock)
       IN  keyOut' = Append(keyOut, id)
    /\ UNCHANGED <<runVars, envVars, keyIn, mapIn, mapOut, mapErr>>

NextKey == AssignKey \/ ClockTick

SpecKey == InitKey /\ [][NextKey]_vars

---------------------------------------------------------------------------
(* SpecMapper: the Item Mapper on one raw record *)

InitMapper ==
    /\ script = "map" /\ pc = "map"
    /\ exam_type = "" /\ count = 0
    /\ clock = ClockStart /\ ticksLeft = 0 /\ faultsLeft = 0
    /\ RunZero
    /\ keyIn = NoKeyIn /\ keyOut = <<>>
    /\ mapIn \in {[script |-> "generate", exam_type |-> et, index |-> 1, record |-> r] :
                     et \in ExamTypes, r \in RawRecords}
            \cup {[script |-> "seed", exam_type |-> et, index |-> k,
                   record |-> SAMPLE_QUESTIONS[k]] :
                     et \in ExamTypes, k \in 1..Len(SAMPLE_QUESTIONS)}
    /\ mapOut = <<>> /\ mapErr = ""

\* one call of create_question_item
MapRecord ==
    /\ pc = "map"
    /\ pc' = "mapped"
    /\ IF MapRaises(mapIn.record)
       THEN mapErr' = "KeyError" /\ mapOut' = <<>>
       ELSE /\ mapErr' = ""
            /\ mapOut' = << IF mapIn.script = "seed"
                            THEN seed_create_question_item(mapIn.record,
                                     mapIn.exam_type, mapIn.index, clock)
                            ELSE create_question_item(mapIn.record,
                                     mapIn.exam_type, mapIn.index, clock) >>
    /\ UNCHANGED <<argVars, mainVars, writerVars, histVars, endVars, envVars,
                   keyIn, keyOut, mapIn>>

NextMapper == MapRecord

SpecMapper == InitMapper /\ [][NextMapper]_vars

---------------------------------------------------------------------------
(* Claims about the Key Assigner and the Item Mapper *)

\* C6: the ids produced for two different indices of one invocation sequence
\* differ, for the sequential and for the time-salted strategy, whether or
\* not the clock second changed in between and also beyond four digits.
C6_KeysDistinct ==
    (script = "key" /\ Len(keyOut) = 2) => keyOut[1] # keyOut[2]

\* two ids were produced, the second for an index of more than four digits
\* and in a later second than the first
C6_Witness ==
    /\ script = "key" /\ Len(keyOut) = 2
    /\ keyIn.strategy = "time-salted"
    /\ keyIn.second >= Pow10(PadWidth)
    /\ keyIn.first < Pow10(PadWidth)
    /\ clock > ClockStart

\* C8: for an exam type that is not configured the Key Assigner produces no
\* id (it fails); it never answers with the prefix of another exam type.
C8_UnknownExamTypeRejected ==
    (script = "key" /\ keyIn.exam_type \notin ExamTypes) => keyOut = <<>>

\* the mapped attribute's value
AttrValue(item, f) == item[f].S

ItemOptionIds(item) == {item["options"].L[k].M.id.S : k \in 1..Len(item["options"].L)}

ItemCorrectAnswers(item) ==
    {item["correctAnswers"].L[k].S : k \in 1..Len(item["correctAnswers"].L)}

\* C9: every item the mapper returns has correctAnswers non-empty and a
\* subset of its option ids (a violating record is rejected instead).
C9_MapperFailsClosed ==
    (script = "map" /\ mapOut # <<>>) =>
        /\ ItemCorrectAnswers(mapOut[1]) # {}
        /\ ItemCorrectAnswers(mapOut[1]) \subseteq ItemOptionIds(mapOut[1])

\* the record carries a value for optional field f
CarriesValue(q, f) == f \in DOMAIN q /\ q[f] # ""

\* C10: for scenario and codeSnippet, the mapped item has the attribute
\* exactly when the record carries a value for it, and then with that value.
C10_OptionalFieldsCopied ==
    (script = "map" /\ mapOut # <<>>) =>
        \A f \in OptionalFields :
            /\ (f \in DOMAIN mapOut[1]) <=> CarriesValue(mapIn.record, f)
            /\ (f \in DOMAIN mapOut[1]) => AttrValue(mapOut[1], f) = mapIn.record[f]

---------------------------------------------------------------------------
(* The Batch Writer: insert_questions_to_dynamodb (generate-questions.py)   *)
(* and the same loop in seed_questions (seed-questions.py)                  *)

\* range(0, len(items), batch_size) yields this many offsets
NumChunks(n) == (n + batch_size - 1) \div batch_size

\* a faulty ChunkAt: the chunks are cut from the end of the list backwards
ChunkAt_LastFirst(its, off) ==
    SubSeq(its, IF Len(its) - off > batch_size
                THEN Len(its) - off - batch_size + 1 ELSE 1,
           Len(its) - off)

\* items[i:i + batch_size]
ChunkAt(its, off) == SubSeq(its, off + 1, Min(off + batch_size, Len(its)))

\* a faulty InsertedFromChunk: the unprocessed requests are not deducted
InsertedFromChunk_WholeBatch(n, u) == n

\* len(batch) - len(unprocessed.get(table_name, []))
InsertedFromChunk(n, u) == n - u

\* a faulty FailedAfterRaise: the exception is swallowed, the batch lost
FailedAfterRaise_Swallowed(failed, batch) == failed

\* failed_items.extend(batch), in the except branch
FailedAfterRaise(failed, batch) == failed \o batch

\* a faulty NextOffset: consecutive chunks share an item
NextOffset_Overlapping(off) == off + batch_size - 1

\* the next offset of the for loop
NextOffset(off) == off + batch_size

\* {"PutRequest": {"Item": item}}
PutRequest(item) == [PutRequest |-> [Item |-> item]]

\* What the Store may report as unprocessed for a batch: the put requests of
\* its first u or of its last u items, 1 <= u <= len(batch).  (The Store may
\* pick any subset; these leave every count and both ends of the batch open.)
UnprocessedChoices(batch) ==
    { [k \in 1..u |-> PutRequest(batch[k])] : u \in 1..Len(batch) }
        \cup { [k \in 1..u |-> PutRequest(batch[Len(batch) - u + k])] :
                 u \in 1..Len(batch) }

\* the positions in items of the chunk at offset off
Positions(batch, off) == (off + 1) .. (off + Len(batch))

\* the positions of the items of a batch whose put request the Store does
\* not report as unprocessed: those it has applied
AppliedOf(batch, off, unprocessed) ==
    { off + k : k \in { j \in 1..Len(batch) :
                          \A n \in 1..Len(unprocessed) :
                              unprocessed[n] # PutRequest(batch[j]) } }

\* the composite key of an item
KeyOf(item) == <<item["PK"].S, item["SK"].S>>

\* the value of watched while no key is being watched for
NoWatch == << <<"", "">> >>

\* the process ends with this status
Exit(status, cause) ==
    /\ pc' = "exit"
    /\ exitStatus' = status
    /\ exitCause' = cause
    /\ summary' = summary

\* line 214, one element of the list comprehension: map the next record
\* with index len(items) + 1; a KeyError is caught nowhere and ends the
\* process with a traceback and status 1
MapItem ==
    /\ script = "generate" /\ pc = "map"
    /\ Len(items) < Len(questions)
    /\ LET index == Len(items) + 1
           q == questions[index]
       IN  IF MapRaises(q)
           THEN /\ Exit(1, "KeyError")
                /\ UNCHANGED items
           ELSE /\ items' = Append(items, create_question_item(q, exam_type, index, clock))
                /\ UNCHANGED <<pc, endVars>>
    /\ UNCHANGED <<argVars, envVars, mainVars, histVars, fnVars,
                   i, w_inserted, failed_items, callLog, lastChunk, applied>>

\* seed-questions.py lines 193-197, one iteration: the pool is cycled through
SeedMapItem ==
    /\ script = "seed" /\ pc = "map"
    /\ Len(items) < count
    /\ LET index == Len(items) + 1
           sample_index == (index - 1) % Len(SAMPLE_QUESTIONS)
           question_data == SAMPLE_QUESTIONS[sample_index + 1]
       IN  items' = Append(items,
                       seed_create_question_item(question_data, exam_type, index, clock))
    /\ delivered' = delivered + 1
    /\ UNCHANGED <<argVars, envVars, mainVars, endVars, fnVars, pc,
                   i, w_inserted, failed_items, callLog, lastChunk, applied,
                   genCalls, storeCalls, pauses, retInserted, retFailed,
                   watched, keyReused>>

\* lines 216-219: every record is mapped, the loop starts
BeginWrite ==
    /\ pc = "map"
    /\ Len(items) = (IF script = "seed" THEN count ELSE Len(questions))
    /\ pc' = "chunk"
    /\ i' = 0
    /\ w_inserted' = 0
    /\ failed_items' = <<>>
    /\ UNCHANGED <<argVars, envVars, mainVars, histVars, endVars, fnVars,
                   items, callLog, lastChunk, applied>>

\* lines 221-245, one iteration of the loop: one batch_write_item call and
\* its reconciliation.  The Store applies everything, reports some put
\* requests as unprocessed and applies the others, or the call raises; a
\* call that raises has reached the Store and been applied, or has not.
SubmitChunk ==
    /\ pc = "chunk"
    /\ i < Len(items)
    /\ LET batch == ChunkAt(items, i)
           mark(outcome, u) ==
               [k |-> Len(callLog) + 1, size |-> Len(batch), outcome |-> outcome,
                unprocessed |-> u, insertedBefore |-> w_inserted,
                failedBefore |-> Len(failed_items)]
       IN  /\ callLog' = Append(callLog, batch)
           /\ storeCalls' = storeCalls + 1
           /\ \E w \in 0..Len(batch) :
                /\ w # 0 => watched = <<>>
                /\ watched' = IF w = 0 THEN watched ELSE <<KeyOf(batch[w])>>
                /\ keyReused' =
                     \/ keyReused
                     \/ /\ watched # <<>>
                        /\ \E p \in 1..Len(batch) : KeyOf(batch[p]) = watched[1]
                     \/ /\ w # 0
                        /\ \E p \in 1..Len(batch) :
                              p # w /\ KeyOf(batch[p]) = KeyOf(batch[w])
           /\ \/ /\ w_inserted' = w_inserted + InsertedFromChunk(Len(batch), 0)
                 /\ lastChunk' = mark("answered", 0)
                 /\ applied' = applied \cup Positions(batch, i)
                 /\ UNCHANGED <<failed_items, faultsLeft>>
              \/ /\ faultsLeft > 0
                 /\ faultsLeft' = faultsLeft - 1
                 /\ \E unprocessed \in UnprocessedChoices(batch) :
                      /\ failed_items' = failed_items \o unprocessed
                      /\ w_inserted' = w_inserted
                             + InsertedFromChunk(Len(batch), Len(unprocessed))
                      /\ lastChunk' = mark("answered", Len(unprocessed))
                      /\ applied' = applied \cup AppliedOf(batch, i, unprocessed)
              \/ /\ faultsLeft > 0
                 /\ faultsLeft' = faultsLeft - 1
                 /\ failed_items' = FailedAfterRaise(failed_items, batch)
                 /\ lastChunk' = mark("raised", 0)
                 /\ \E done \in {{}, Positions(batch, i)} :
                        applied' = applied \cup done
                 /\ UNCHANGED w_inserted
    /\ i' = NextOffset(i)
    /\ UNCHANGED <<argVars, mainVars, endVars, fnVars, pc, items, clock, ticksLeft,
                   genCalls, pauses, tallyVars>>

\* line 247: the loop is over, (total_inserted, failed_items) is returned
WriterReturn ==
    /\ script = "generate" /\ pc = "chunk"
    /\ i >= Len(items)
    /\ pc' = "returned"
    /\ retInserted' = retInserted + w_inserted
    /\ retFailed' = retFailed + Len(failed_items)
    /\ UNCHANGED <<argVars, envVars, mainVars, writerVars, endVars, fnVars,
                   genCalls, storeCalls, pauses, delivered, watched, keyReused>>

\* seed-questions.py lines 230-241: the loop is over, the summary is printed
\* and the process ends
SeedSummary ==
    /\ script = "seed" /\ pc = "chunk"
    /\ i >= Len(items)
    /\ pc' = "done"
    /\ exitStatus' = 0
    /\ exitCause' = "summary"
    /\ summary' = [generated |-> count, inserted |-> w_inserted,
                   failed |-> Len(failed_items)]
    /\ retInserted' = retInserted + w_inserted
    /\ retFailed' = retFailed + Len(failed_items)
    /\ UNCHANGED <<argVars, envVars, mainVars, writerVars, fnVars,
                   genCalls, storeCalls, pauses, delivered, watched, keyReused>>

---------------------------------------------------------------------------
(* SpecWrite: one write.  generate-questions.py: main has called the        *)
(* Generator for its only domain and calls insert_questions_to_dynamodb     *)
(* with the n records it returned.  seed-questions.py: seed_questions has   *)
(* created its client and maps and writes count pool records.               *)

\* the sizes of the writes tried: around zero, around one full chunk and
\* from just under two full chunks up to MaxItems
WriteSizes ==
    (0 .. 2) \cup ((batch_size - 1) .. (batch_size + 2))
        \cup ((2 * batch_size - 1) .. MaxItems)

\* the sizes of the writes in which the Store's state is looked at: those
\* of at most two chunks
StoreSizes == (0 .. 2) \cup ((batch_size - 1) .. (MaxItems - batch_size + 1))

\* the start of a write of one of the given sizes
InitWriteOf(sizes) ==
    /\ script \in {"generate", "seed"}
    /\ exam_type = "Developer-Associate"
    /\ pc = "map"
    /\ clock = ClockStart /\ ticksLeft = 0
    /\ faultsLeft = NumChunks(MaxItems)
    /\ \E n \in sizes :
         IF script = "generate"
         THEN /\ domain_arg = "Security" /\ domains = <<"Security">> /\ d = 1
              /\ count = DefaultCountGenerate
              /\ questions = [k \in 1..n |-> ValidRecord]
              /\ total_generated = n /\ genCalls = 1
         ELSE /\ n >= MinCount
              /\ domain_arg = "" /\ domains = <<>> /\ d = 0
              /\ count = n
              /\ questions = <<>>
              /\ total_generated = 0 /\ genCalls = 0
    /\ items = <<>> /\ i = 0 /\ w_inserted = 0 /\ failed_items = <<>>
    /\ callLog = <<>> /\ lastChunk = NoChunk /\ applied = {}
    /\ total_inserted = 0 /\ storeCalls = 0 /\ pauses = 0
    /\ delivered = total_generated /\ retInserted = 0 /\ retFailed = 0
    /\ exitStatus = -1 /\ exitCause = "" /\ summary = <<>>
    /\ watched = NoWatch /\ keyReused = FALSE
    /\ FnZero

InitWrite == InitWriteOf(WriteSizes)

InitStore == InitWriteOf(StoreSizes)

NextWrite ==
    \/ MapItem
    \/ SeedMapItem
    \/ BeginWrite
    \/ SubmitChunk
    \/ WriterReturn
    \/ SeedSummary

SpecWrite == InitWrite /\ [][NextWrite]_vars

SpecStore == InitStore /\ [][NextWrite]_vars

---------------------------------------------------------------------------
(* Claims about the Batch Writer *)

\* the write has returned to its caller
Returned ==
    \/ script = "generate" /\ pc = "returned"
    \/ script = "seed" /\ pc = "done"

CeilDiv(n, m) == IF n % m = 0 THEN n \div m ELSE n \div m + 1

RECURSIVE Flatten(_)
Flatten(seqs) == IF seqs = <<>> THEN <<>> ELSE Head(seqs) \o Flatten(Tail(seqs))

\* C1: after each chunk call the writer has counted the chunk exactly once
\* (size - u inserted and u failed when the Store answered with u
\* unprocessed requests, nothing inserted and the whole chunk failed when the
\* call raised), and the returned insertedCount and failedItems add up to the
\* number of items.
C1_Conservation ==
    /\ lastChunk.outcome = "answered" =>
          /\ w_inserted = lastChunk.insertedBefore + lastChunk.size - lastChunk.unprocessed
          /\ Len(failed_items) = lastChunk.failedBefore + lastChunk.unprocessed
    /\ lastChunk.outcome = "raised" =>
          /\ w_inserted = lastChunk.insertedBefore
          /\ Len(failed_items) = lastChunk.failedBefore + lastChunk.size
    /\ Returned => w_inserted + Len(failed_items) = Len(items)

\* a write of three chunks has returned; its last chunk came back with some,
\* not all, requests unprocessed and an earlier chunk failed as a whole
C1_Witness ==
    /\ Returned
    /\ Len(callLog) = 3
    /\ lastChunk.outcome = "answered"
    /\ lastChunk.unprocessed > 0
    /\ Len(failed_items) > batch_size
    /\ w_inserted > 0

\* C2: the writer makes ceil(N / 25) batch-put calls, each of 1 to 25 items,
\* and the chunks in call order, put end to end, are the input sequence:
\* every item is submitted in exactly one call, whatever the Store answered.
C2_CallSequence ==
    /\ \A k \in 1..Len(callLog) :
          Len(callLog[k]) >= 1 /\ Len(callLog[k]) <= batch_size
    /\ pc = "chunk" => Flatten(callLog) = SubSeq(items, 1, Min(i, Len(items)))
    /\ Returned =>
          /\ Len(callLog) = CeilDiv(Len(items), batch_size)
          /\ Flatten(callLog) = items

\* a write of more than two full chunks has returned although the Store
\* failed on every call
C2_Witness ==
    /\ Returned
    /\ Len(items) > 2 * batch_size
    /\ Len(callLog) = 3
    /\ w_inserted = 0

\* C3: when the call for chunk k raises, exactly the items of chunk k are
\* appended to failedItems and insertedCount is left as it was; the exception
\* does not end the write: the loop goes on at the next offset, every later
\* chunk is submitted and the write returns.
C3_RaiseIsRecoverable ==
    lastChunk.outcome = "raised" =>
        /\ pc # "exit"
        /\ w_inserted = lastChunk.insertedBefore
        /\ Len(failed_items) = lastChunk.failedBefore + lastChunk.size
        /\ SubSeq(failed_items, lastChunk.failedBefore + 1, Len(failed_items))
              = callLog[lastChunk.k]
        /\ pc = "chunk" => i = lastChunk.k * batch_size
        /\ (pc = "chunk" /\ i < Len(items)) => ENABLED SubmitChunk
        /\ Returned => Len(callLog) = CeilDiv(Len(items), batch_size)

\* the first call of a write raised and the next chunk was submitted and
\* accepted
C3_Witness ==
    /\ Len(callLog) = 2
    /\ Len(failed_items) = batch_size
    /\ failed_items = callLog[1]
    /\ lastChunk.outcome = "answered"
    /\ lastChunk.unprocessed = 0
    /\ w_inserted = Len(callLog[2])

\* the number of items submitted so far in this write
Submitted == Len(Flatten(callLog))

\* item k of the write is in the writer's failed list, as the item itself
\* (its chunk raised) or as the put request the Store handed back
InFailed(k) ==
    \E n \in 1..Len(failed_items) :
        failed_items[n] = items[k] \/ failed_items[n] = PutRequest(items[k])

\* item k carries the id the Key Assigner gives to index k
KeyedInOrder(k) ==
    IF script = "seed"
    THEN items[k]["id"].S = seed_question_id(exam_type, k)
    ELSE \E t \in ClockStart..clock :
             items[k]["id"].S = generate_question_id(exam_type, k, t)

\* C11 as stated: at every point of a write the items the Store has applied
\* are a prefix of the item sequence: no item is written while an item that
\* precedes it is not.
C11_AppliedIsPrefix ==
    script \in {"generate", "seed"} =>
        \A k \in applied : \A j \in 1..k : j \in applied

\* C11, amended: items are keyed in the order received and submitted in that
\* order, so at every point of a write the items submitted are a prefix of
\* the item sequence and the Store has applied nothing beyond it; an item of
\* that prefix that is not applied is in failedItems, and while failedItems
\* is empty the applied items are that whole prefix.
C11_SubmittedIsPrefix ==
    script \in {"generate", "seed"} =>
        /\ \A k \in 1..Len(items) : KeyedInOrder(k)
        /\ Submitted <= Len(items)
        /\ Flatten(callLog) = SubSeq(items, 1, Submitted)
        /\ applied \subseteq 1..Submitted
        /\ \A j \in (1..Submitted) \ applied : InFailed(j)
        /\ failed_items = <<>> => applied = 1..Submitted

\* a write of two chunks has returned; the first call raised and applied
\* nothing, the second chunk was applied in full
C11_Witness ==
    /\ Returned
    /\ Len(callLog) = 2
    /\ failed_items = callLog[1]
    /\ applied = (batch_size + 1) .. Len(items)

---------------------------------------------------------------------------
(* Spec: one run of generate-questions.py main() *)

\* get_domains_for_exam
get_domains_for_exam(et) ==
    CASE et = "Developer-Associate" ->
            <<"Development with AWS Services", "Security", "Deployment",
              "Troubleshooting and Optimization", "Monitoring and Logging">>
      [] et = "Solutions-Architect-Associate" ->
            <<"Design Resilient Architectures", "Design High-Performing Architectures",
              "Design Secure Applications and Architectures",
              "Design Cost-Optimized Architectures">>
      [] et = "SysOps-Administrator-Associate" ->
            <<"Monitoring and Reporting", "High Availability",
              "Deployment and Provisioning", "Storage and Data Management",
              "Security and Compliance", "Networking">>
      [] OTHER -> <<>>

\* the ways generate_questions_with_bedrock fails: invoke_model raises, the
\* response body is not the expected JSON, the text holds no bracket pair,
\* the text between the brackets is no JSON
GeneratorFailures ==
    {"transport error", "unparseable body", "no JSON array", "invalid JSON array"}

\* what the Generator returns for one domain in this model: up to MaxGen
\* records, all valid or valid up to a last one that lacks a required field
\* (the mapper never looks beyond the first such record)
GeneratedLists ==
    {[k \in 1..n |-> ValidRecord] : n \in 0..MaxGen}
        \cup {[k \in 1..n |-> IF k < n THEN ValidRecord ELSE RecordMissingField] :
                 n \in 1..MaxGen}

\* the start of a run but for the history variable watched
InitMain ==
    /\ script = "generate" /\ pc = "validate"
    /\ exam_type \in ExamTypes
    /\ domain_arg \in {"", "Security"}
    /\ count \in {MinCount - 1, DefaultCountGenerate, MaxCountGenerate + 1}
    /\ clock = ClockStart /\ ticksLeft = MaxTicks
    /\ domains = <<>> /\ d = 0 /\ questions = <<>>
    /\ items = <<>> /\ i = 0 /\ w_inserted = 0 /\ failed_items = <<>>
    /\ callLog = <<>> /\ lastChunk = NoChunk /\ applied = {}
    /\ total_generated = 0 /\ total_inserted = 0
    /\ genCalls = 0 /\ storeCalls = 0 /\ pauses = 0
    /\ delivered = 0 /\ retInserted = 0 /\ retFailed = 0
    /\ exitStatus = -1 /\ exitCause = "" /\ summary = <<>>
    /\ keyReused = FALSE
    /\ FnZero

\* a run in which the Store may fail on MaxFaults calls; no key is watched
InitRun ==
    /\ InitMain
    /\ faultsLeft = MaxFaults
    /\ watched = NoWatch

\* a run in which one submitted key, any, is watched for; what the Store
\* answers has no bearing on the keys nor on what is submitted, and here it
\* accepts every call
InitRunKeys ==
    /\ InitMain
    /\ faultsLeft = 0
    /\ watched = <<>>

\* lines 322-325
ValidateCount ==
    /\ script = "generate" /\ pc = "validate"
    /\ IF count < MinCount \/ count > MaxCountGenerate
       THEN Exit(1, "count out of range")
       ELSE pc' = "clients" /\ UNCHANGED endVars
    /\ UNCHANGED <<argVars, envVars, mainVars, writerVars, histVars, fnVars>>

\* lines 336-337: either client constructor may raise, which ends the process
CreateClients ==
    /\ script = "generate" /\ pc = "clients"
    /\ \/ pc' = "domains" /\ UNCHANGED endVars
       \/ Exit(1, "client creation failed")
    /\ UNCHANGED <<argVars, envVars, mainVars, writerVars, histVars, fnVars>>

\* lines 340-353: the domain list, and the for loop is entered
SelectDomains ==
    /\ script = "generate" /\ pc = "domains"
    /\ domains' = IF domain_arg # "" THEN <<domain_arg>>
                  ELSE get_domains_for_exam(exam_type)
    /\ d' = 1
    /\ pc' = IF domains' = <<>> THEN "summary" ELSE "generate"
    /\ UNCHANGED <<argVars, envVars, writerVars, histVars, endVars, fnVars,
                   questions, total_generated, total_inserted>>

\* a faulty OnGeneratorFailure: the error is printed and the run goes on
\* with the records it has
OnGeneratorFailure_Continue(failure) ==
    /\ pc' = "map"
    /\ exitStatus' = exitStatus
    /\ exitCause' = failure
    /\ summary' = summary

\* lines 142-144: any exception of the Generator call is answered with
\* sys.exit(1)
OnGeneratorFailure(failure) == Exit(1, failure)

\* lines 361-371 with generate_questions_with_bedrock (lines 84-144): the
\* Generator is called for domains[d]; any failure is caught and answered
\* with sys.exit(1); otherwise the records are counted and handed to
\* insert_questions_to_dynamodb
CallGenerator ==
    /\ script = "generate" /\ pc = "generate"
    /\ genCalls' = genCalls + 1
    /\ \/ /\ \E failure \in GeneratorFailures : OnGeneratorFailure(failure)
          /\ UNCHANGED <<questions, total_generated, delivered, writerVars>>
       \/ /\ \E qs \in GeneratedLists :
               /\ questions' = qs
               /\ total_generated' = total_generated + Len(qs)
               /\ delivered' = delivered + Len(qs)
          /\ pc' = "map"
          /\ items' = <<>> /\ i' = 0 /\ w_inserted' = 0 /\ failed_items' = <<>>
          /\ callLog' = <<>> /\ lastChunk' = NoChunk /\ applied' = {}
          /\ UNCHANGED endVars
    /\ UNCHANGED <<argVars, envVars, fnVars, domains, d, total_inserted,
                   storeCalls, pauses, retInserted, retFailed, watched, keyReused>>

\* a faulty NotLastDomain: the pause is taken after every domain
NotLastDomain_Always(doms, k) == TRUE

\* line 384: domain != domains[-1]
NotLastDomain(doms, k) == doms[k] # doms[Len(doms)]

\* lines 378-384: the write has returned; its count is added and the loop
\* either pauses, goes on or is over
AfterWrite ==
    /\ script = "generate" /\ pc = "returned"
    /\ total_inserted' = total_inserted + w_inserted
    /\ IF NotLastDomain(domains, d)
       THEN pc' = "pause" /\ UNCHANGED d
       ELSE IF d < Len(domains)
            THEN pc' = "generate" /\ d' = d + 1
            ELSE pc' = "summary" /\ UNCHANGED d
    /\ UNCHANGED <<argVars, envVars, writerVars, histVars, endVars, fnVars,
                   domains, questions, total_generated>>

\* a faulty SleepUntil: the pause takes no time
SleepUntil_NoDelay(now) == now

\* time.sleep(2) returns no earlier than two seconds later
SleepUntil(now) == now + SleepSeconds

\* lines 385-386: the pause between two domains, then the next iteration
Pause ==
    /\ script = "generate" /\ pc = "pause"
    /\ clock' = SleepUntil(clock)
    /\ pauses' = pauses + 1
    /\ d' = d + 1
    /\ pc' = "generate"
    /\ UNCHANGED <<argVars, writerVars, endVars, fnVars, ticksLeft, faultsLeft,
                   domains, questions, total_generated, total_inserted,
                   genCalls, storeCalls, tallyVars, watched, keyReused>>

\* a faulty ReportedFailed: nothing is reported as failed
ReportedFailed_Zero(generated, inserted) == 0

\* line 395: the failed total is computed from the two counters main keeps
ReportedFailed(generated, inserted) == generated - inserted

\* lines 388-398: the summary is printed and main returns
Summary ==
    /\ script = "generate" /\ pc = "summary"
    /\ pc' = "done"
    /\ exitStatus' = 0
    /\ exitCause' = "summary"
    /\ summary' = [generated |-> total_generated, inserted |-> total_inserted,
                   failed |-> ReportedFailed(total_generated, total_inserted)]
    /\ UNCHANGED <<argVars, envVars, mainVars, writerVars, histVars, fnVars>>

Next ==
    \/ ValidateCount
    \/ CreateClients
    \/ SelectDomains
    \/ CallGenerator
    \/ MapItem
    \/ BeginWrite
    \/ SubmitChunk
    \/ WriterReturn
    \/ AfterWrite
    \/ Pause
    \/ Summary
    \/ ClockTick

Spec == InitRun /\ [][Next]_vars

SpecRunKeys == InitRunKeys /\ [][Next]_vars

\* the program is sequential and keeps running until it ends
FairSpec == Spec /\ WF_vars(Next)

\* a run of either script up to its summary: generate-questions.py main(),
\* or seed_questions with count pool records
InitTotals ==
    \/ InitRun
    \/ InitStore /\ script = "seed"

NextTotals ==
    \/ Next
    \/ SeedMapItem
    \/ SeedSummary

SpecTotals == InitTotals /\ [][NextTotals]_vars

---------------------------------------------------------------------------
(* Claims about the run *)

\* the Generator call of the current domain has failed
GeneratorFailed == exitCause \in GeneratorFailures

\* C4: once the Generator call for domain d has failed, the process has
\* ended with a non-zero status, no batch-put call and no Generator call can
\* follow (none for domain d, none for a later domain), and a failure on the
\* first domain leaves the run with no chunk submitted and nothing inserted.
C4_GeneratorFailureIsFatal ==
    GeneratorFailed =>
        /\ pc = "exit"
        /\ exitStatus > 0
        /\ ~ENABLED SubmitChunk
        /\ ~ENABLED CallGenerator
        /\ ~ENABLED MapItem
        /\ genCalls = d
        /\ d = 1 => (storeCalls = 0 /\ total_inserted = 0 /\ w_inserted = 0)

\* the Generator failed on a later domain, after items of earlier domains
\* had been written
C4_Witness ==
    /\ GeneratorFailed
    /\ d = 3
    /\ storeCalls = 2
    /\ total_inserted > 0

\* C5: a run in which the count is accepted, the clients are created and no
\* Generator call fails ends, whatever the Store did, with the summary and
\* exit status zero, after one Generator call per domain of the list.
C5_StoreFailuresNonFatal ==
    (/\ exitStatus # -1
     /\ exitCause \notin GeneratorFailures
     /\ exitCause \notin {"count out of range", "client creation failed"}) =>
        /\ pc = "done"
        /\ exitStatus = 0
        /\ genCalls = Len(domains)
        /\ d = Len(domains)

\* C12: a run that reaches the summary reports as inserted the sum of the
\* insertedCount the Batch Writer returned over all domains, as failed the
\* total number of failed items it returned, and as generated the number of
\* records the Generator or the pool delivered, which is inserted + failed.
C12_SummaryTotals ==
    pc = "done" =>
        /\ summary.inserted = retInserted
        /\ summary.failed = retFailed
        /\ summary.generated = delivered
        /\ summary.generated = summary.inserted + summary.failed

\* a run over several domains has printed its summary; the Store reported
\* both items of the last domain as unprocessed and these are the 2 failed
\* items of the run
C12_Witness ==
    /\ pc = "done" /\ script = "generate"
    /\ Len(domains) > 1
    /\ lastChunk.outcome = "answered"
    /\ lastChunk.unprocessed = 2
    /\ summary.failed = 2
    /\ summary.inserted > 0

\* the write of the current domain is over: every chunk has been submitted
WriteOver == i >= Len(items) /\ Len(callLog) = NumChunks(Len(items))

\* C13: a run over D domains that reaches its end has paused D - 1 times;
\* when the Generator is called for domain d, d - 1 pauses have been made;
\* each pause is made after the write of a domain that is not the last and
\* is followed by the Generator call of the next domain; no pause is made
\* after the last domain's write nor once the process has ended on a fatal
\* failure.
C13_Pacing ==
    /\ [](script = "generate" =>
            /\ pc \in {"generate", "map", "chunk", "returned"} => pauses = d - 1
            /\ pc = "generate" => genCalls = d - 1
            /\ pc = "pause" =>
                  /\ d < Len(domains) /\ pauses = d - 1
                  /\ genCalls = d /\ WriteOver
            /\ pc \in {"summary", "done"} =>
                  /\ d = Len(domains) /\ pauses = Len(domains) - 1
                  /\ ~ENABLED Pause
            /\ pc = "exit" =>
                  /\ ~ENABLED Pause
                  /\ pauses = IF d = 0 THEN 0 ELSE d - 1)
    /\ [][pauses' # pauses =>
            /\ pc = "pause" /\ pauses' = pauses + 1
            /\ pc' = "generate" /\ d' = d + 1
            /\ genCalls' = genCalls /\ storeCalls' = storeCalls
            /\ clock' >= clock + SleepSeconds]_vars

\* a run over the six domains of an exam has ended with the summary after
\* five pauses
C13_Witness ==
    /\ pc = "done"
    /\ Len(domains) = 6
    /\ genCalls = 6
    /\ pauses = 5

\* C7: no two items submitted to the Store in one run carry the same
\* composite key: whichever submitted key is watched for, no other
\* submission of the run carries it.
C7_KeysUniqueInRun == ~keyReused

\* a run over several domains has ended with the summary; the watched key
\* was submitted for the first domain and items of two more domains were
\* submitted after it
C7_Witness ==
    /\ pc = "done"
    /\ Len(domains) > 1
    /\ watched # <<>>
    /\ watched[1][2] = "QUESTION#" \o generate_question_id(exam_type, 1, ClockStart)
    /\ storeCalls >= 3
    /\ ~keyReused

=============================================================================
